---- MODULE Spec2Model ----
(***************************************************************************)
(* A model of the people repository of fotema (core/src/people/repo.rs):   *)
(* the face-scan bookkeeping tables, the face table, and the five          *)
(* repository operations, each run by a thread that takes the connection   *)
(* mutex, runs its statements (inside a transaction for the writers) and   *)
(* releases the mutex when the function returns; and the FaceThumbnails    *)
(* component of the viewer (src/app/components/viewer/face_thumbnails.rs), *)
(* which shows the faces find_faces returns for the picture viewed.        *)
(*                                                                         *)
(* SQL NULL and Rust's Option are modelled alike: <<>> is NULL / None and  *)
(* <<v>> is the value v / Some(v).  A Result is a record with a field ok.  *)
(***************************************************************************)
EXTENDS Integers, Sequences, FiniteSets, TLC

\* ------------------------------------------------------------------ bounds

\* Largest value the wall clock (CURRENT_TIMESTAMP) reaches.
MaxClock == 1
\* Longest observation list handed to add_face_scans.
MaxObs == 2
\* Most rows the pictures_faces table is allowed to grow to.
MaxFaceRows == 2
\* Largest timestamp a picture of a drawn catalogue carries.
MaxTs == 1

\* ------------------------------------------------------------ basic values

NULL == <<>>
Some(v) == <<v>>
IsNull(o) == o = <<>>

\* The threads that share the connection: the batch scanner and the GUI.
\* Each holds a clone of the Repository and may call any operation.
Threads == {"scanner", "gui"}
FaceIds == 1 .. (MaxFaceRows + 1)

\* ------------------------------------------------------------------- paths
\* A path is the sequence of its components; an absolute path starts with
\* the root component "/".

RootDir == "/"
IsAbsolute(path) == Len(path) > 0 /\ path[1] = RootDir

library_base_path == <<RootDir, "library">>
cache_dir_base_path == <<RootDir, "cache">>

\* Path::strip_prefix: the components after base, or an error when base is
\* not a prefix of path.
StripPrefix(path, base) ==
    IF Len(path) >= Len(base) /\ SubSeq(path, 1, Len(base)) = base
    THEN [ok |-> TRUE, value |-> SubSeq(path, Len(base) + 1, Len(path))]
    ELSE [ok |-> FALSE, value |-> <<>>]

\* Path::join: an absolute argument replaces the base.
Join(base, path) == IF IsAbsolute(path) THEN path ELSE base \o path

\* A component that is not valid UTF-8 is written with replacement
\* characters by to_string_lossy.
NonUtf8 == "\\xFF"
Replacement == "U+FFFD"
Lossy(comp) == IF comp = NonUtf8 THEN Replacement ELSE comp

\* Path::to_string_lossy: the text of a path, here the sequence of its
\* components with a separator between two of them.
Separator == "|"
RECURSIVE ToStringLossy(_)
ToStringLossy(path) ==
    IF Len(path) = 0 THEN <<>>
    ELSE IF Len(path) = 1 THEN <<Lossy(path[1])>>
    ELSE <<Lossy(path[1]), Separator>> \o ToStringLossy(Tail(path))

\* The path a text denotes (what PathBuf::join does with a String argument):
\* the pieces between separators.
RECURSIVE PathFromString(_)
PathFromString(text) ==
    IF Len(text) = 0 THEN <<>>
    ELSE IF text[1] = Separator THEN PathFromString(Tail(text))
    ELSE <<text[1]>> \o PathFromString(Tail(text))

\* path_encoding::from_base64 on the stored picture_path_b64 text: the text
\* is either the encoding of a relative path or something that does not decode.
ToBase64(path) == [b64 |-> TRUE, path |-> path]
Garbage == [b64 |-> FALSE, path |-> <<>>]
FromBase64(text) ==
    IF text.b64 THEN [ok |-> TRUE, value |-> text.path]
    ELSE [ok |-> FALSE, value |-> <<>>]

\* ------------------------------------------------------------ observations
\* face_extractor::Face, the detector's output for one candidate face.  The
\* repository reads its two asset paths, its model name, bounds, confidence
\* and five optional landmarks, each None or Some(<<x, y>>).

Observation(thumbnail, bounds, present, absent) ==
    [thumbnail_path |-> thumbnail,
     bounds_path |-> bounds,
     model_name |-> "blaze_face",
     bounds |-> [x |-> 1, y |-> 2, width |-> 3, height |-> 4],
     right_eye |-> present,
     left_eye |-> absent,
     nose |-> present,
     right_mouth_corner |-> absent,
     left_mouth_corner |-> present,
     confidence |-> 9]

\* Both assets under the cache root, the thumbnail in a nested directory;
\* three landmarks found and two not.
ObsGood ==
    Observation(cache_dir_base_path \o <<"face_thumbnails", "a.png">>,
                cache_dir_base_path \o <<"a_bounds.png">>,
                Some(<<5, 6>>), NULL)
\* The thumbnail is not under the cache root.
ObsBadThumbnail ==
    Observation(<<RootDir, "tmp", "c.png">>,
                cache_dir_base_path \o <<"c_bounds.png">>,
                NULL, NULL)
\* The bounds image is not under the cache root.
ObsBadBounds ==
    Observation(cache_dir_base_path \o <<"d.png">>,
                <<RootDir, "tmp", "d_bounds.png">>,
                NULL, NULL)

Observations == {ObsGood, ObsBadThumbnail, ObsBadBounds}

\* The thumbnail lies directly in the cache root.
ObsFlat ==
    Observation(cache_dir_base_path \o <<"e.png">>,
                cache_dir_base_path \o <<"e_bounds.png">>,
                NULL, Some(<<7, 8>>))
\* The thumbnail's file name is not valid UTF-8.
ObsNonUtf8 ==
    Observation(cache_dir_base_path \o <<"face_thumbnails", NonUtf8>>,
                cache_dir_base_path \o <<"f_bounds.png">>,
                Some(<<5, 6>>), NULL)

\* Observations whose two assets are all under the cache root.
StorableObservations == {ObsGood, ObsFlat, ObsNonUtf8}

\* The observations the scanner makes while the viewer is open.
ViewedObservations == {ObsGood, ObsFlat}

\* ------------------------------------------------------------------ state

VARIABLES
    pictures,             \* table pictures (read only here)
    people,               \* table people (read only here)
    pictures_face_scans,  \* table pictures_face_scans, a set of rows
    pictures_faces,       \* table pictures_faces, a set of rows
    con,                  \* the connection mutex: NULL, or Some(thread holding it)
    clock,                \* the wall clock CURRENT_TIMESTAMP reads
    pc,                   \* per thread: where it is in the operation it runs
    call,                 \* per thread: the operation it runs and its arguments
    tx,                   \* per thread: the tables as they were when it took the
                          \* mutex (what a rollback restores)
    ret,                  \* per thread: the Result of the operation, once known
    last_scan,            \* history: per picture, the scan values of the latest
                          \* committed scan write
    rejected,             \* history: face ids a committed mark_not_a_face matched
    observed,             \* history: per face id a committed add_face_scans
                          \* wrote, the observation the row was produced from
    face_thumbnails,      \* the gtk::Box of the FaceThumbnails component: for
                          \* each frame, in order, the id of the face it shows
    viewed                \* history: the latest message the component
                          \* handled and, for a View, what find_faces returned

\* The state of the FaceThumbnails component.
component == <<face_thumbnails, viewed>>

vars == <<pictures, people, pictures_face_scans, pictures_faces, con, clock,
          pc, call, tx, ret, last_scan, rejected, observed, component>>

PictureIds == {p.picture_id : p \in pictures}

tables == [scans |-> pictures_face_scans, faces |-> pictures_faces]

\* The operation a thread runs: its name, its arguments (for add_face_scans
\* the length of the observation list, and the observations the loop has
\* reached so far), and the CURRENT_TIMESTAMP its statement read.  The last
\* field is history, kept for the two queries: whether an add_face_scans
\* call of another thread was under way at some time since this call began.
NoCall == [op |-> "none", picture_id |-> 0, len |-> 0, faces |-> <<>>,
           face_id |-> 0, ts |-> 0, overlap |-> FALSE]

Ok(v) == [ok |-> TRUE, value |-> v]
Err(e) == [ok |-> FALSE, value |-> e]

\* The latest message of the FaceThumbnails component: none yet.
NoMessage == [msg |-> "none", picture_id |-> 0, found |-> Ok(<<>>)]

\* ------------------------------------------------------------- statements
\* The SQL statements of the repository, as functions of the tables.

\* COALESCE: the first value of the list that is not NULL, NULL if none.
RECURSIVE Coalesce(_)
Coalesce(values) ==
    IF Len(values) = 0 THEN NULL
    ELSE IF ~IsNull(values[1]) THEN values[1]
    ELSE Coalesce(Tail(values))

\* Faulty variant of OrderByOrderingTsDesc: ORDER BY ordering_ts, without DESC.
RECURSIVE OrderByOrderingTsAsc(_)
OrderByOrderingTsAsc(rows) ==
    IF rows = {} THEN <<>>
    ELSE LET first == CHOOSE r \in rows :
                          \A q \in rows : r.ordering_ts <= q.ordering_ts
         IN  <<first>> \o OrderByOrderingTsAsc(rows \ {first})

\* ORDER BY ordering_ts DESC: the rows as a sequence, largest first (rows of
\* equal ordering_ts in some fixed order).
RECURSIVE OrderByOrderingTsDesc(_)
OrderByOrderingTsDesc(rows) ==
    IF rows = {} THEN <<>>
    ELSE LET first == CHOOSE r \in rows :
                          \A q \in rows : r.ordering_ts >= q.ordering_ts
         IN  <<first>> \o OrderByOrderingTsDesc(rows \ {first})

\* Faulty variant of SelectNeedFaceScan: a picture whose scan row is a broken
\* marker is selected again.
SelectNeedFaceScanRetryBroken(pics, scans, now) ==
    OrderByOrderingTsDesc(
        {[picture_id |-> p.picture_id,
          picture_path_b64 |-> p.picture_path_b64,
          ordering_ts |-> Coalesce(<<p.exif_created_ts, p.exif_modified_ts,
                                     p.fs_created_ts, p.fs_modified_ts,
                                     Some(now)>>)[1]] :
            p \in {q \in pics :
                     /\ ~\E s \in scans : s.picture_id = q.picture_id
                                          /\ ~s.is_broken
                     /\ Coalesce(<<q.is_broken, Some(FALSE)>>) = Some(FALSE)}})

\* The SELECT of find_need_face_scan: the pictures with no row in
\* pictures_face_scans that are not flagged broken, newest first.
SelectNeedFaceScan(pics, scans, now) ==
    OrderByOrderingTsDesc(
        {[picture_id |-> p.picture_id,
          picture_path_b64 |-> p.picture_path_b64,
          ordering_ts |-> Coalesce(<<p.exif_created_ts, p.exif_modified_ts,
                                     p.fs_created_ts, p.fs_modified_ts,
                                     Some(now)>>)[1]] :
            p \in {q \in pics :
                     /\ ~\E s \in scans : s.picture_id = q.picture_id
                     /\ Coalesce(<<q.is_broken, Some(FALSE)>>) = Some(FALSE)}})

\* The rows of pictures_faces in row id order, the order a scan of the
\* table yields them in.
RECURSIVE OrderByFaceId(_)
OrderByFaceId(rows) ==
    IF rows = {} THEN <<>>
    ELSE LET first == CHOOSE r \in rows : \A q \in rows : r.face_id <= q.face_id
         IN  <<first>> \o OrderByFaceId(rows \ {first})

\* The rows of a set in some fixed order.
RECURSIVE InSomeOrder(_)
InSomeOrder(rows) ==
    IF rows = {} THEN <<>>
    ELSE LET first == CHOOSE r \in rows : TRUE
         IN  <<first>> \o InSomeOrder(rows \ {first})

\* One face row LEFT OUTER JOIN people USING (person_id): one row per
\* matching person, or one row with NULL person columns when none matches.
JoinPeople(f, persons) ==
    LET matching == {q \in persons : ~IsNull(f.person_id)
                                     /\ q.person_id = f.person_id}
    IN  IF matching = {}
        THEN <<[face_id |-> Some(f.face_id),
                face_thumbnail_path |-> f.thumbnail_path,
                person_id |-> NULL,
                person_name |-> NULL,
                person_thumbnail_path |-> NULL]>>
        ELSE InSomeOrder({[face_id |-> Some(f.face_id),
                           face_thumbnail_path |-> f.thumbnail_path,
                           person_id |-> q.person_id,
                           person_name |-> q.name,
                           person_thumbnail_path |-> q.thumbnail_path] :
                             q \in matching})

RECURSIVE LeftOuterJoinPeople(_, _)
LeftOuterJoinPeople(fs, persons) ==
    IF Len(fs) = 0 THEN <<>>
    ELSE JoinPeople(fs[1], persons) \o LeftOuterJoinPeople(Tail(fs), persons)

\* Faulty variant of SelectFaces: the is_face condition is missing.
SelectFacesRejectedToo(faces, persons, picture_id) ==
    LeftOuterJoinPeople(
        OrderByFaceId({f \in faces : f.picture_id = picture_id}),
        persons)

\* The SELECT of find_faces.
SelectFaces(faces, persons, picture_id) ==
    LeftOuterJoinPeople(
        OrderByFaceId({f \in faces : f.picture_id = picture_id
                                     /\ f.is_face = TRUE}),
        persons)

\* Faulty variant of UpsertScan: ON CONFLICT (picture_id) DO NOTHING.
UpsertScanDoNothing(scans, picture_id, is_broken, face_count, now) ==
    IF \E s \in scans : s.picture_id = picture_id
    THEN scans
    ELSE scans \cup {[picture_id |-> picture_id, is_broken |-> is_broken,
                      face_count |-> face_count, scan_ts |-> now]}

\* Faulty variant of UpsertScan: the conflict clause forgets is_broken.
UpsertScanKeepBroken(scans, picture_id, is_broken, face_count, now) ==
    IF \E s \in scans : s.picture_id = picture_id
    THEN {IF s.picture_id = picture_id
          THEN [s EXCEPT !.face_count = face_count, !.scan_ts = now]
          ELSE s : s \in scans}
    ELSE scans \cup {[picture_id |-> picture_id, is_broken |-> is_broken,
                      face_count |-> face_count, scan_ts |-> now]}

\* Faulty variant of UpsertScan: the conflict clause forgets face_count.
UpsertScanKeepCount(scans, picture_id, is_broken, face_count, now) ==
    IF \E s \in scans : s.picture_id = picture_id
    THEN {IF s.picture_id = picture_id
          THEN [s EXCEPT !.is_broken = is_broken, !.scan_ts = now]
          ELSE s : s \in scans}
    ELSE scans \cup {[picture_id |-> picture_id, is_broken |-> is_broken,
                      face_count |-> face_count, scan_ts |-> now]}

\* INSERT INTO pictures_face_scans ... ON CONFLICT (picture_id) DO UPDATE SET ...
UpsertScan(scans, picture_id, is_broken, face_count, now) ==
    IF \E s \in scans : s.picture_id = picture_id
    THEN {IF s.picture_id = picture_id
          THEN [s EXCEPT !.is_broken = is_broken,
                         !.face_count = face_count,
                         !.scan_ts = now]
          ELSE s : s \in scans}
    ELSE scans \cup {[picture_id |-> picture_id, is_broken |-> is_broken,
                      face_count |-> face_count, scan_ts |-> now]}

\* The row id a new row of pictures_faces gets: one more than the largest.
NextFaceId(faces) ==
    IF faces = {} THEN 1
    ELSE 1 + (CHOOSE n \in {f.face_id : f \in faces} :
                  \A f \in faces : f.face_id <= n)

\* Faulty variant of MapY: the y column is given the x coordinate.
MapYTakesX(landmark) == IF IsNull(landmark) THEN NULL ELSE Some(landmark[1][1])

\* Option::map(|x| x.0) and Option::map(|x| x.1) on a landmark.
MapX(landmark) == IF IsNull(landmark) THEN NULL ELSE Some(landmark[1][1])
MapY(landmark) == IF IsNull(landmark) THEN NULL ELSE Some(landmark[1][2])

\* INSERT INTO pictures_faces (...) VALUES (..., true): person_id is not
\* among the columns and stays NULL.
InsertFace(faces, picture_id, thumbnail_path, bounds_path, face) ==
    faces \cup
    {[face_id |-> NextFaceId(faces),
      picture_id |-> picture_id,
      thumbnail_path |-> Some(thumbnail_path),
      bounds_path |-> Some(bounds_path),
      model_name |-> face.model_name,
      bounds_x |-> face.bounds.x,
      bounds_y |-> face.bounds.y,
      bounds_width |-> face.bounds.width,
      bounds_height |-> face.bounds.height,
      right_eye_x |-> MapX(face.right_eye),
      right_eye_y |-> MapY(face.right_eye),
      left_eye_x |-> MapX(face.left_eye),
      left_eye_y |-> MapY(face.left_eye),
      nose_x |-> MapX(face.nose),
      nose_y |-> MapY(face.nose),
      right_mouth_corner_x |-> MapX(face.right_mouth_corner),
      right_mouth_corner_y |-> MapY(face.right_mouth_corner),
      left_mouth_corner_x |-> MapX(face.left_mouth_corner),
      left_mouth_corner_y |-> MapY(face.left_mouth_corner),
      confidence |-> face.confidence,
      is_face |-> TRUE,
      person_id |-> NULL]}

\* Faulty variant of UpdateNotAFace: the WHERE clause is missing.
UpdateNotAFaceEveryRow(faces, face_id) ==
    {[f EXCEPT !.is_face = FALSE] : f \in faces}

\* Faulty variant of UpdateNotAFace: the row is deleted instead of flagged.
UpdateNotAFaceDelete(faces, face_id) ==
    {f \in faces : f.face_id # face_id}

\* UPDATE pictures_faces SET is_face = FALSE WHERE face_id = ?1
UpdateNotAFace(faces, face_id) ==
    {IF f.face_id = face_id THEN [f EXCEPT !.is_face = FALSE] ELSE f :
        f \in faces}

\* ------------------------------------------------------------ row mapping

\* Row::get of a column into a non-Option type: NULL is an error.
RowGet(column) == IF IsNull(column) THEN Err("InvalidColumnType")
                  ELSE Ok(column[1])

\* Result::ok
ResultOk(r) == IF r.ok THEN Some(r.value) ELSE NULL

\* PictureId::new: the id type of the pictures, a wrapper of the column value.
PictureId(id) == [id |-> id]

to_picture_id_path_tuple(row) ==
    LET picture_path == FromBase64(row.picture_path_b64)
    IN  IF ~picture_path.ok THEN Err("InvalidQuery")
        ELSE Ok(<<PictureId(row.picture_id),
                  Join(library_base_path, picture_path.value)>>)

\* Faulty variant of to_face_and_person: a Person is built as soon as the
\* person id is there, with an empty name or path for a NULL column.
to_face_and_person_by_id(row) ==
    LET face_id == RowGet(row.face_id)
        face_thumbnail_path == RowGet(row.face_thumbnail_path)
        person_id == ResultOk(RowGet(row.person_id))
        person_name == ResultOk(RowGet(row.person_name))
        person_thumbnail_path == ResultOk(RowGet(row.person_thumbnail_path))
    IN  IF ~face_id.ok THEN face_id
        ELSE IF ~face_thumbnail_path.ok THEN face_thumbnail_path
        ELSE Ok(<<[face_id |-> face_id.value,
                   thumbnail_path |->
                       Join(cache_dir_base_path,
                            PathFromString(face_thumbnail_path.value))],
                  IF ~IsNull(person_id)
                  THEN Some([person_id |-> person_id[1],
                             name |-> IF IsNull(person_name) THEN ""
                                      ELSE person_name[1],
                             thumbnail_path |->
                                 IF IsNull(person_thumbnail_path)
                                 THEN cache_dir_base_path
                                 ELSE Join(cache_dir_base_path,
                                           PathFromString(
                                               person_thumbnail_path[1]))])
                  ELSE NULL>>)

to_face_and_person(row) ==
    LET face_id == RowGet(row.face_id)
        face_thumbnail_path == RowGet(row.face_thumbnail_path)
        person_id == ResultOk(RowGet(row.person_id))
        person_name == ResultOk(RowGet(row.person_name))
        person_thumbnail_path == ResultOk(RowGet(row.person_thumbnail_path))
    IN  IF ~face_id.ok THEN face_id
        ELSE IF ~face_thumbnail_path.ok THEN face_thumbnail_path
        ELSE Ok(<<[face_id |-> face_id.value,
                   thumbnail_path |->
                       Join(cache_dir_base_path,
                            PathFromString(face_thumbnail_path.value))],
                  IF /\ ~IsNull(person_id)
                     /\ ~IsNull(person_name)
                     /\ ~IsNull(person_thumbnail_path)
                  THEN Some([person_id |-> person_id[1],
                             name |-> person_name[1],
                             thumbnail_path |->
                                 Join(cache_dir_base_path,
                                      PathFromString(person_thumbnail_path[1]))])
                  ELSE NULL>>)

\* Faulty variant of FlattenPictures: the rows up to the first that maps to
\* Err.
RECURSIVE FlattenPicturesUntilErr(_)
FlattenPicturesUntilErr(rows) ==
    IF Len(rows) = 0 THEN <<>>
    ELSE LET r == to_picture_id_path_tuple(rows[1])
         IN  IF r.ok THEN <<r.value>> \o FlattenPicturesUntilErr(Tail(rows))
             ELSE <<>>

\* query_map(..).flatten().collect(): the rows that map to Ok, in order; a
\* row that maps to Err is dropped.
RECURSIVE FlattenPictures(_)
FlattenPictures(rows) ==
    IF Len(rows) = 0 THEN <<>>
    ELSE LET r == to_picture_id_path_tuple(rows[1])
         IN  (IF r.ok THEN <<r.value>> ELSE <<>>) \o FlattenPictures(Tail(rows))

RECURSIVE FlattenFaces(_)
FlattenFaces(rows) ==
    IF Len(rows) = 0 THEN <<>>
    ELSE LET r == to_face_and_person(rows[1])
         IN  (IF r.ok THEN <<r.value>> ELSE <<>>) \o FlattenFaces(Tail(rows))

\* ------------------------------------------------------------------- init

\* A row of the pictures table of the photo catalogue.
Picture(id, exif_created, exif_modified, fs_created, fs_modified, broken) ==
    [picture_id |-> id,
     picture_path_b64 |-> ToBase64(<<"photos", ToString(id)>>),
     exif_created_ts |-> exif_created,
     exif_modified_ts |-> exif_modified,
     fs_created_ts |-> fs_created,
     fs_modified_ts |-> fs_modified,
     is_broken |-> broken]

\* The catalogue the repository is opened on: two pictures, neither scanned
\* yet; the second has no timestamp at all.
Catalogue ==
    {Picture(1, NULL, Some(1), Some(0), Some(0), NULL),
     Picture(2, NULL, NULL, NULL, NULL, Some(FALSE))}

\* The state of the threads and of the history before any call.
InitThreads ==
    /\ con = NULL
    /\ clock = 0
    /\ pc = [t \in Threads |-> "idle"]
    /\ call = [t \in Threads |-> NoCall]
    /\ tx = [t \in Threads |-> NULL]
    /\ ret = [t \in Threads |-> NULL]
    /\ last_scan = [p \in PictureIds |-> NULL]
    /\ rejected = {}
    /\ observed = <<>>
    /\ face_thumbnails = <<>>
    /\ viewed = NoMessage

Init ==
    /\ pictures = Catalogue
    /\ people = {}
    /\ pictures_face_scans = {}
    /\ pictures_faces = {}
    /\ InitThreads

\* ---------------------------------------------------------------- actions

\* The wall clock advances.
Tick ==
    /\ clock < MaxClock
    /\ clock' = clock + 1
    /\ UNCHANGED <<pictures, people, pictures_face_scans, pictures_faces, con,
                   pc, call, tx, ret, last_scan, rejected,
                   observed, component>>

\* A thread calls a repository operation: its first step is
\* self.con.lock(), where it waits for the mutex.
Enter(t) ==
    /\ pc[t] = "idle"
    /\ pc' = [pc EXCEPT ![t] = "lock"]
    /\ call' = [call EXCEPT ![t].overlap =
                    \E u \in Threads \ {t} : call[u].op = "add_face_scans"]
    /\ UNCHANGED <<pictures, people, pictures_face_scans, pictures_faces, con,
                   clock, tx, ret, last_scan, rejected,
                   observed, component>>

\* Faulty variant of Lock: the thread goes on without the mutex being free.
LockWithoutWaiting(t) ==
    /\ pc[t] = "lock"
    /\ con' = Some(t)
    /\ tx' = [tx EXCEPT ![t] = Some(tables)]
    /\ pc' = [pc EXCEPT ![t] = "run"]
    /\ UNCHANGED <<pictures, people, pictures_face_scans, pictures_faces,
                   clock, call, ret, last_scan, rejected,
                   observed, component>>

\* self.con.lock().unwrap() returns: the thread takes the mutex, which must
\* be free.  (A writer then opens its transaction; tx keeps the tables as
\* they are now.)
Lock(t) ==
    /\ pc[t] = "lock"
    /\ con = NULL
    /\ con' = Some(t)
    /\ tx' = [tx EXCEPT ![t] = Some(tables)]
    /\ pc' = [pc EXCEPT ![t] = "run"]
    /\ UNCHANGED <<pictures, people, pictures_face_scans, pictures_faces,
                   clock, call, ret, last_scan, rejected,
                   observed, component>>

\* Faulty variant of Unlock: the function returns with the guard leaked, so
\* the mutex stays taken.
UnlockKeepingGuard(t) ==
    /\ pc[t] = "return"
    /\ pc' = [pc EXCEPT ![t] = "idle"]
    /\ call' = [call EXCEPT ![t] = NoCall]
    /\ tx' = [tx EXCEPT ![t] = NULL]
    /\ ret' = [ret EXCEPT ![t] = NULL]
    /\ UNCHANGED <<pictures, people, pictures_face_scans, pictures_faces, con,
                   clock, last_scan, rejected, observed, component>>

\* The function returns: the mutex guard is dropped.
Unlock(t) ==
    /\ pc[t] = "return"
    /\ con' = NULL
    /\ pc' = [pc EXCEPT ![t] = "idle"]
    /\ call' = [call EXCEPT ![t] = NoCall]
    /\ tx' = [tx EXCEPT ![t] = NULL]
    /\ ret' = [ret EXCEPT ![t] = NULL]
    /\ UNCHANGED <<pictures, people, pictures_face_scans, pictures_faces,
                   clock, last_scan, rejected,
                   observed, component>>

\* Faulty variant of RolledBack: the statements ran outside a transaction, so
\* dropping it undoes nothing.
NotRolledBack(t) == tables

\* Faulty variant of RolledBack: the face inserts ran on the connection, not
\* in the transaction, and outlive its rollback.
RolledBackScansOnly(t) == [scans |-> tx[t][1].scans, faces |-> pictures_faces]

\* The tables once the transaction of t is dropped without a commit: as they
\* were when it began.
RolledBack(t) == tx[t][1]

\* An error leaves the function with `?`: the transaction is dropped, which
\* rolls it back, and the Result is the error.
Fail(t, e) ==
    /\ pictures_face_scans' = RolledBack(t).scans
    /\ pictures_faces' = RolledBack(t).faces
    /\ ret' = [ret EXCEPT ![t] = Some(Err(e))]
    /\ pc' = [pc EXCEPT ![t] = "return"]

\* tx.commit() and Ok(()): what the history variables record of it.
Committed(t, c) ==
    /\ ret' = [ret EXCEPT ![t] = Some(Ok(<<>>))]
    /\ pc' = [pc EXCEPT ![t] = "return"]
    /\ last_scan' =
           IF c.op = "add_face_scans"
           THEN [last_scan EXCEPT ![c.picture_id] =
                    Some([is_broken |-> FALSE, face_count |-> c.len,
                          scan_ts |-> c.ts])]
           ELSE IF c.op = "mark_face_scan_broken"
           THEN [last_scan EXCEPT ![c.picture_id] =
                    Some([is_broken |-> TRUE, face_count |-> 0,
                          scan_ts |-> c.ts])]
           ELSE last_scan
    /\ rejected' =
           IF /\ c.op = "mark_not_a_face"
              /\ \E f \in RolledBack(t).faces : f.face_id = c.face_id
           THEN rejected \cup {c.face_id}
           ELSE rejected
    /\ observed' =
           IF c.op = "add_face_scans"
           THEN LET first == NextFaceId(RolledBack(t).faces)
                    new == first .. (first + Len(c.faces) - 1)
                IN  [id \in DOMAIN observed \cup new |->
                        IF id \in new THEN c.faces[id - first + 1]
                        ELSE observed[id]]
           ELSE observed

\* find_need_face_scan: the query and the mapping of its rows.
find_need_face_scan(t) ==
    /\ pc[t] = "run"
    /\ call' = [call EXCEPT ![t] = [call[t] EXCEPT !.op = "find_need_face_scan",
                                                  !.ts = clock]]
    /\ ret' = [ret EXCEPT ![t] =
                 Some(Ok(FlattenPictures(
                     SelectNeedFaceScan(pictures, pictures_face_scans, clock))))]
    /\ pc' = [pc EXCEPT ![t] = "return"]
    /\ UNCHANGED <<pictures, people, pictures_face_scans, pictures_faces, con,
                   clock, tx, last_scan, rejected,
                   observed, component>>

\* find_faces(picture_id): the query and the mapping of its rows.
find_faces(t) ==
    /\ pc[t] = "run"
    /\ \E picture_id \in PictureIds :
        /\ call' = [call EXCEPT ![t] = [call[t] EXCEPT !.op = "find_faces",
                                            !.picture_id = picture_id]]
        /\ ret' = [ret EXCEPT ![t] =
                     Some(Ok(FlattenFaces(
                         SelectFaces(pictures_faces, people, picture_id))))]
    /\ pc' = [pc EXCEPT ![t] = "return"]
    /\ UNCHANGED <<pictures, people, pictures_face_scans, pictures_faces, con,
                   clock, tx, last_scan, rejected,
                   observed, component>>

\* mark_face_scan_broken(picture_id): the upsert, committed.
mark_face_scan_broken(t) ==
    /\ pc[t] = "run"
    /\ \E picture_id \in PictureIds :
        LET c == [NoCall EXCEPT !.op = "mark_face_scan_broken",
                                !.picture_id = picture_id, !.ts = clock]
        IN  /\ call' = [call EXCEPT ![t] = c]
            /\ pictures_face_scans' =
                   UpsertScan(pictures_face_scans, picture_id, TRUE, 0, clock)
            /\ Committed(t, c)
    /\ UNCHANGED <<pictures, people, pictures_faces, con, clock, tx, component>>

\* The calls once thread t has begun the add_face_scans call c: the calls
\* of the threads waiting in lock() overlap it.
WhileOthersWait(t, c) ==
    [u \in Threads |->
        IF u = t THEN c
        ELSE IF pc[u] = "lock" THEN [call[u] EXCEPT !.overlap = TRUE]
        ELSE call[u]]

\* Faulty variant of add_face_scans_upsert: the faces an earlier scan of
\* the picture stored are deleted first.
add_face_scans_upsert_replacing(t) ==
    /\ pc[t] = "run"
    /\ \E picture_id \in PictureIds, len \in 0 .. MaxObs :
        /\ Cardinality(pictures_faces) + len <= MaxFaceRows
        /\ call' = WhileOthersWait(t, [NoCall EXCEPT !.op = "add_face_scans",
                                                   !.picture_id = picture_id,
                                                   !.len = len, !.ts = clock])
        /\ pictures_face_scans' =
               UpsertScan(pictures_face_scans, picture_id, FALSE, len, clock)
        /\ pictures_faces' =
               {f \in pictures_faces : f.picture_id # picture_id}
    /\ pc' = [pc EXCEPT ![t] = "insert"]
    /\ UNCHANGED <<pictures, people, con, clock, tx, ret, last_scan, rejected,
                   observed, component>>

\* Faulty variant of add_face_scans_upsert: the mutex guard is dropped once
\* the upsert has run, before the loop over the observations.
add_face_scans_upsert_unguarded(t) ==
    /\ pc[t] = "run"
    /\ \E picture_id \in PictureIds, len \in 0 .. MaxObs :
        /\ Cardinality(pictures_faces) + len <= MaxFaceRows
        /\ call' = WhileOthersWait(t, [NoCall EXCEPT !.op = "add_face_scans",
                                                   !.picture_id = picture_id,
                                                   !.len = len, !.ts = clock])
        /\ pictures_face_scans' =
               UpsertScan(pictures_face_scans, picture_id, FALSE, len, clock)
    /\ con' = NULL
    /\ pc' = [pc EXCEPT ![t] = "insert"]
    /\ UNCHANGED <<pictures, people, pictures_faces, clock, tx, ret,
                   last_scan, rejected, observed, component>>

\* add_face_scans(picture_id, faces): the scan upsert, first statement of
\* the transaction.  The observations of the list are drawn when the loop
\* reaches them; only the length of the list is used here.
add_face_scans_upsert(t) ==
    /\ pc[t] = "run"
    /\ \E picture_id \in PictureIds, len \in 0 .. MaxObs :
        /\ Cardinality(pictures_faces) + len <= MaxFaceRows
        /\ call' = WhileOthersWait(t, [NoCall EXCEPT !.op = "add_face_scans",
                                                   !.picture_id = picture_id,
                                                   !.len = len, !.ts = clock])
        /\ pictures_face_scans' =
               UpsertScan(pictures_face_scans, picture_id, FALSE, len, clock)
    /\ pc' = [pc EXCEPT ![t] = "insert"]
    /\ UNCHANGED <<pictures, people, pictures_faces, con, clock, tx, ret,
                   last_scan, rejected,
                   observed, component>>

\* add_face_scans: one turn of the loop over the observations, the next one
\* being any of the given set.  The two paths are made relative to the cache
\* root, which fails for a path outside it; the insert itself may fail in
\* the store.
add_face_scans_turn(t, observations) ==
    /\ pc[t] = "insert"
    /\ Len(call[t].faces) < call[t].len
    /\ \E face \in observations :
        LET thumbnail_path == StripPrefix(face.thumbnail_path, cache_dir_base_path)
            bounds_path == StripPrefix(face.bounds_path, cache_dir_base_path)
        IN  /\ call' = [call EXCEPT ![t].faces = Append(@, face)]
            /\ \/ /\ ~thumbnail_path.ok \/ ~bounds_path.ok
                  /\ Fail(t, "StripPrefixError")
               \/ /\ thumbnail_path.ok /\ bounds_path.ok
                  /\ Fail(t, "SqliteFailure")
               \/ /\ thumbnail_path.ok /\ bounds_path.ok
                  /\ pictures_faces' =
                         InsertFace(pictures_faces, call[t].picture_id,
                                    ToStringLossy(thumbnail_path.value),
                                    ToStringLossy(bounds_path.value), face)
                  /\ UNCHANGED <<pictures_face_scans, pc, ret>>
    /\ UNCHANGED <<pictures, people, con, clock, tx, last_scan, rejected,
                   observed, component>>

add_face_scans_insert(t) == add_face_scans_turn(t, Observations)

\* add_face_scans: the loop is over; tx.commit() and Ok(()).
add_face_scans_commit(t) ==
    /\ pc[t] = "insert"
    /\ Len(call[t].faces) = call[t].len
    /\ Committed(t, call[t])
    /\ UNCHANGED <<pictures, people, pictures_face_scans, pictures_faces, con,
                   clock, call, tx, component>>

\* mark_not_a_face(face_id): the update, committed.
mark_not_a_face(t) ==
    /\ pc[t] = "run"
    /\ \E face_id \in FaceIds :
        LET c == [NoCall EXCEPT !.op = "mark_not_a_face", !.face_id = face_id]
        IN  /\ call' = [call EXCEPT ![t] = c]
            /\ pictures_faces' = UpdateNotAFace(pictures_faces, face_id)
            /\ Committed(t, c)
    /\ UNCHANGED <<pictures, people, pictures_face_scans, con, clock, tx,
                   component>>

Next ==
    \/ Tick
    \/ \E t \in Threads :
        \/ Enter(t)
        \/ Lock(t)
        \/ find_need_face_scan(t)
        \/ find_faces(t)
        \/ mark_face_scan_broken(t)
        \/ add_face_scans_upsert(t)
        \/ add_face_scans_insert(t)
        \/ add_face_scans_commit(t)
        \/ mark_not_a_face(t)
        \/ Unlock(t)

Spec == Init /\ [][Next]_vars

\* ---------------------------------------------------- the fair schedule
\* A thread that holds the mutex runs on: every step from the first
\* statement to the release is a step of its own, nothing it waits for.
Run(t) ==
    \/ find_need_face_scan(t)
    \/ find_faces(t)
    \/ mark_face_scan_broken(t)
    \/ add_face_scans_upsert(t)
    \/ add_face_scans_insert(t)
    \/ add_face_scans_commit(t)
    \/ mark_not_a_face(t)
    \/ Unlock(t)

\* The steps of the threads.  The wall clock is left standing here: it only
\* feeds scan_ts, which no guard reads.
FairNext == \E t \in Threads : Enter(t) \/ Lock(t) \/ Run(t)

\* A fair schedule: a thread that can run does run, and a thread waiting in
\* lock() gets the mutex if it is free again and again.  Whether a thread
\* calls the repository at all is left open.
FairSpec ==
    /\ Init
    /\ [][FairNext]_vars
    /\ \A t \in Threads : WF_vars(Run(t)) /\ SF_vars(Lock(t))

\* ------------------------------------------------- the scan queue alone
\* find_need_face_scan on every catalogue of two pictures whose four
\* timestamps are each absent or a value up to MaxTs.

Timestamps == {NULL} \cup {Some(ts) : ts \in 0 .. MaxTs}

QueryInit ==
    /\ pictures \in
         {{Picture(1, a[1], a[2], a[3], a[4], NULL),
           Picture(2, b[1], b[2], b[3], b[4], Some(FALSE))} :
              a \in [1 .. 4 -> Timestamps], b \in [1 .. 4 -> Timestamps]}
    /\ people = {}
    /\ pictures_face_scans = {}
    /\ pictures_faces = {}
    /\ InitThreads

QueryNext ==
    \/ Tick
    \/ Enter("scanner")
    \/ Lock("scanner")
    \/ find_need_face_scan("scanner")
    \/ Unlock("scanner")

QuerySpec == QueryInit /\ [][QueryNext]_vars

\* -------------------------------------------- the scan queue, any tables
\* find_need_face_scan on tables other writers have filled in: each of the
\* two pictures is flagged broken, flagged not broken or not flagged, has a
\* stored path that decodes or one that does not, and has no scan row, a
\* scan row or a broken marker.

\* The picture with a stored path that is not the encoding of any path.
Undecodable(picture) == [picture EXCEPT !.picture_path_b64 = Garbage]

PictureRows(id, exif_modified) ==
    LET rows == {Picture(id, NULL, exif_modified, NULL, NULL, broken) :
                    broken \in {NULL, Some(FALSE), Some(TRUE)}}
    IN  rows \cup {Undecodable(p) : p \in rows}

OptionalScan(id) ==
    {{}} \cup {UpsertScan({}, id, broken, 0, 0) : broken \in BOOLEAN}

ListingInit ==
    /\ pictures \in {{a, b} : a \in PictureRows(1, Some(1)),
                              b \in PictureRows(2, NULL)}
    /\ people = {}
    /\ pictures_face_scans \in
          {a \cup b : a \in OptionalScan(1), b \in OptionalScan(2)}
    /\ pictures_faces = {}
    /\ InitThreads

ListingSpec == ListingInit /\ [][QueryNext]_vars

\* ------------------------------------------- the FaceThumbnails component
\* The component handles one message at a time, on the GUI thread, while
\* the scanner thread stores faces, with thumbnails at two different paths,
\* and rejects faces.

\* FaceThumbnailsInput::Hide
Hide ==
    /\ face_thumbnails' = <<>>
    /\ viewed' = [NoMessage EXCEPT !.msg = "Hide"]
    /\ UNCHANGED <<pictures, people, pictures_face_scans, pictures_faces, con,
                   clock, pc, call, tx, ret, last_scan, rejected, observed>>

\* The thumbnail paths of the faces of a find_faces Result.
Thumbnails(found) ==
    IF found.ok
    THEN {found.value[i][1].thumbnail_path : i \in 1 .. Len(found.value)}
    ELSE {}

\* faces.into_iter().filter(|face| face.thumbnail_path.exists()) and the
\* frame built for each face that is left, in order; files are the paths
\* that exist.
RECURSIVE Frames(_, _)
Frames(faces, files) ==
    IF Len(faces) = 0 THEN <<>>
    ELSE (IF faces[1][1].thumbnail_path \in files
          THEN <<faces[1][1].face_id>>
          ELSE <<>>) \o Frames(Tail(faces), files)

\* Faulty variant of View: the container is not emptied first.
ViewWithoutRemoveAll(picture_id) ==
    /\ con = NULL
    /\ \E found \in {Ok(FlattenFaces(SelectFaces(pictures_faces, people,
                                                  picture_id))),
                      Err("SqliteFailure")} :
        \E files \in SUBSET Thumbnails(found) :
            /\ face_thumbnails' =
                   IF found.ok
                   THEN face_thumbnails \o Frames(found.value, files)
                   ELSE face_thumbnails
            /\ viewed' = [msg |-> "View", picture_id |-> picture_id,
                          found |-> found]
    /\ UNCHANGED <<pictures, people, pictures_face_scans, pictures_faces, con,
                   clock, pc, call, tx, ret, last_scan, rejected, observed>>

\* FaceThumbnailsInput::View(picture_id): remove_all, then find_faces, which
\* waits for the mutex and may fail in the store, then one frame for each
\* face returned whose thumbnail file exists.  Which files exist is up to
\* the file system.
View(picture_id) ==
    /\ con = NULL
    /\ \E found \in {Ok(FlattenFaces(SelectFaces(pictures_faces, people,
                                                  picture_id))),
                      Err("SqliteFailure")} :
        \E files \in SUBSET Thumbnails(found) :
            /\ face_thumbnails' =
                   IF found.ok THEN Frames(found.value, files) ELSE <<>>
            /\ viewed' = [msg |-> "View", picture_id |-> picture_id,
                          found |-> found]
    /\ UNCHANGED <<pictures, people, pictures_face_scans, pictures_faces, con,
                   clock, pc, call, tx, ret, last_scan, rejected, observed>>

GuiNext ==
    \/ Hide
    \/ \E picture_id \in PictureIds : View(picture_id)
    \/ Enter("scanner")
    \/ Lock("scanner")
    \/ add_face_scans_upsert("scanner")
    \/ add_face_scans_turn("scanner", ViewedObservations)
    \/ add_face_scans_commit("scanner")
    \/ mark_not_a_face("scanner")
    \/ Unlock("scanner")

GuiSpec == Init /\ [][GuiNext]_vars

\* ------------------------------------------------ stored paths read back
\* The scanner stores lists of observations that are all under the cache
\* root, with flat and nested thumbnail paths and a file name that is not
\* UTF-8, while the GUI reads the faces of the pictures.

PathNext ==
    \/ Enter("scanner")
    \/ Lock("scanner")
    \/ add_face_scans_upsert("scanner")
    \/ add_face_scans_turn("scanner", StorableObservations)
    \/ add_face_scans_commit("scanner")
    \/ Unlock("scanner")
    \/ Enter("gui")
    \/ Lock("gui")
    \/ find_faces("gui")
    \/ Unlock("gui")

PathSpec == Init /\ [][PathNext]_vars

\* ------------------------------------------------ the face reader alone
\* find_faces on tables another writer has filled in: two faces of picture 1,
\* each linked to no person, to person 1 or to person 2, and a people table
\* in which each of the two persons is absent or present with a name and a
\* thumbnail path that may each be NULL.

PersonIds == {1, 2}

PersonRows(id) ==
    {[person_id |-> Some(id), name |-> name, thumbnail_path |-> thumbnail] :
        name \in {NULL, Some("Ann")},
        thumbnail \in {NULL, Some(<<"people", Separator, "p.png">>)}}

OptionalPerson(id) == {{}} \cup {{r} : r \in PersonRows(id)}

PeopleTables == {a \cup b : a \in OptionalPerson(1), b \in OptionalPerson(2)}

\* The link of a face to a person, which another component writes.
LinkPerson(faces, face_id, person_id) ==
    {IF f.face_id = face_id THEN [f EXCEPT !.person_id = person_id] ELSE f :
        f \in faces}

\* The faces of one committed add_face_scans(1, <<ObsGood, ObsGood>>).
TwoFaces ==
    LET thumbnail_path ==
            ToStringLossy(StripPrefix(ObsGood.thumbnail_path,
                                      cache_dir_base_path).value)
        bounds_path ==
            ToStringLossy(StripPrefix(ObsGood.bounds_path,
                                      cache_dir_base_path).value)
        one == InsertFace({}, 1, thumbnail_path, bounds_path, ObsGood)
    IN  InsertFace(one, 1, thumbnail_path, bounds_path, ObsGood)

ReaderInit ==
    /\ pictures = Catalogue
    /\ people \in PeopleTables
    /\ pictures_face_scans = UpsertScan({}, 1, FALSE, 2, 0)
    /\ pictures_faces \in
         {LinkPerson(LinkPerson(TwoFaces, 1, first), 2, second) :
            first \in {NULL} \cup {Some(id) : id \in PersonIds},
            second \in {NULL} \cup {Some(id) : id \in PersonIds}}
    /\ InitThreads

ReaderNext ==
    \/ Enter("gui")
    \/ Lock("gui")
    \/ find_faces("gui")
    \/ Unlock("gui")

ReaderSpec == ReaderInit /\ [][ReaderNext]_vars

\* ------------------------------------------- the face reader, any rows
\* find_faces on a face table other writers have touched: each of two rows
\* belongs to picture 1 or 2, is still a face or not, and has a thumbnail
\* path column that holds its text or holds NULL, which Row::get cannot
\* read as a String.

StoredFaces ==
    {{[f EXCEPT !.picture_id = of[f.face_id],
                !.is_face = kept[f.face_id],
                !.thumbnail_path = IF readable[f.face_id] THEN @ ELSE NULL] :
         f \in TwoFaces} :
       of \in [1 .. 2 -> {1, 2}],
       kept \in [1 .. 2 -> BOOLEAN],
       readable \in [1 .. 2 -> BOOLEAN]}

DecodeInit ==
    /\ pictures = Catalogue
    /\ people = {}
    /\ pictures_face_scans = UpsertScan({}, 1, FALSE, 2, 0)
    /\ pictures_faces \in StoredFaces
    /\ InitThreads

DecodeSpec == DecodeInit /\ [][ReaderNext]_vars

\* ----------------------------------------------------------------- claims

\* Thread t has run operation op and holds its Result, not yet returned.
Returning(t, op) == pc[t] = "return" /\ call[t].op = op

\* The tables as they were when t took the mutex.
Before(t) == tx[t][1]

\* The path lies under the cache root /cache.
UnderCacheRoot(path) ==
    Len(path) >= 2 /\ path[1] = "/" /\ path[2] = "cache"

ScanRows(scans, picture_id) == {s \in scans : s.picture_id = picture_id}

\* C1: add_face_scans is all-or-nothing.  When an observation the loop
\* reached has its thumbnail or its bounds path outside the cache root the
\* call returns an error, and whenever the call returns an error (a path
\* error or a failed insert) both tables are exactly as they were before it.
C1_AddFaceScansAllOrNothing ==
    \A t \in Threads :
        Returning(t, "add_face_scans") =>
            /\ (\E i \in 1 .. Len(call[t].faces) :
                    \/ ~UnderCacheRoot(call[t].faces[i].thumbnail_path)
                    \/ ~UnderCacheRoot(call[t].faces[i].bounds_path))
                 => ~ret[t][1].ok
            /\ ~ret[t][1].ok =>
                 /\ pictures_face_scans = Before(t).scans
                 /\ pictures_faces = Before(t).faces

\* C1 witness: a call fails at its second observation, after the first was
\* inserted, for a picture that already had a scan row.
C1_Witness ==
    \E t \in Threads :
        /\ Returning(t, "add_face_scans")
        /\ ~ret[t][1].ok
        /\ Len(call[t].faces) = 2
        /\ ~UnderCacheRoot(call[t].faces[2].bounds_path)
        /\ ScanRows(Before(t).scans, call[t].picture_id) # {}

\* C2: find_need_face_scan never returns a picture that has a row in
\* pictures_face_scans, broken or not, nor a picture for which a scan or a
\* broken marker was ever committed.
C2_ScannedNeverReturned ==
    \A t \in Threads :
        Returning(t, "find_need_face_scan") =>
            \A i \in 1 .. Len(ret[t][1].value) :
               LET picture_id == ret[t][1].value[i][1].id
               IN  /\ ScanRows(pictures_face_scans, picture_id) = {}
                   /\ IsNull(last_scan[picture_id])

\* C2 witness: the query returns a picture while the other picture is
\* left out because of its broken marker.
C2_Witness ==
    \E t \in Threads :
        /\ Returning(t, "find_need_face_scan")
        /\ Len(ret[t][1].value) = 1
        /\ \E s \in pictures_face_scans : s.is_broken

\* No transaction holds uncommitted statements.
NoOpenTransaction == \A t \in Threads : pc[t] # "insert"

\* C3: there is at most one scan row per picture; outside an open
\* transaction the row holds the values of the latest committed scan write
\* for the picture (no row if there was none); and when add_face_scans
\* returns Ok the row of its picture has is_broken = FALSE, face_count = the
\* length of the list and a scan_ts that no row had exceeded before.
C3_OneScanRowLatestWrite ==
    /\ \A p \in PictureIds :
          /\ Cardinality(ScanRows(pictures_face_scans, p)) <= 1
          /\ NoOpenTransaction =>
               ScanRows(pictures_face_scans, p) =
                   IF IsNull(last_scan[p]) THEN {}
                   ELSE {[picture_id |-> p,
                          is_broken |-> last_scan[p][1].is_broken,
                          face_count |-> last_scan[p][1].face_count,
                          scan_ts |-> last_scan[p][1].scan_ts]}
    /\ \A t \in Threads :
          Returning(t, "add_face_scans") /\ ret[t][1].ok =>
              /\ \E s \in pictures_face_scans :
                    /\ s.picture_id = call[t].picture_id
                    /\ s.is_broken = FALSE
                    /\ s.face_count = call[t].len
                    /\ s.scan_ts = call[t].ts
              /\ \A s \in Before(t).scans : s.scan_ts <= call[t].ts

\* C3 witness: add_face_scans returns Ok for a picture whose row was a
\* broken marker with an older scan_ts.
C3_Witness ==
    \E t \in Threads :
        /\ Returning(t, "add_face_scans")
        /\ ret[t][1].ok
        /\ call[t].len = 2
        /\ \E s \in Before(t).scans :
              /\ s.picture_id = call[t].picture_id
              /\ s.is_broken
              /\ s.scan_ts < call[t].ts

\* The face ids of the faces a find_faces result holds.
ReturnedFaceIds(result) == {result[i][1].face_id : i \in 1 .. Len(result)}

\* C4: once a mark_not_a_face(f) that matched a row has committed, no
\* find_faces result holds f, and the result of find_faces(p) still holds
\* every face of p whose is_face flag is true.
C4_RejectedFaceOmitted ==
    \A t \in Threads :
        Returning(t, "find_faces") =>
            /\ ret[t][1].ok
            /\ ReturnedFaceIds(ret[t][1].value) \cap rejected = {}
            /\ \A f \in pictures_faces :
                  (f.picture_id = call[t].picture_id /\ f.is_face)
                      => f.face_id \in ReturnedFaceIds(ret[t][1].value)

\* C4 witness: find_faces(p) returns one face of p while another face of p
\* has been rejected.
C4_Witness ==
    \E t \in Threads :
        /\ Returning(t, "find_faces")
        /\ Len(ret[t][1].value) = 1
        /\ \E f \in pictures_faces :
              /\ f.picture_id = call[t].picture_id
              /\ f.face_id \in rejected

\* C5: mark_not_a_face(f) with an id that matched no row returns Ok and
\* leaves both tables as they were.
C5_MissingFaceIsNoOp ==
    \A t \in Threads :
        (/\ Returning(t, "mark_not_a_face")
         /\ ~\E f \in Before(t).faces : f.face_id = call[t].face_id)
            => /\ ret[t][1].ok
               /\ pictures_faces = Before(t).faces
               /\ pictures_face_scans = Before(t).scans

\* C5 witness: the call returns for an id no row has while the table holds
\* a face that is still a face.
C5_Witness ==
    \E t \in Threads :
        /\ Returning(t, "mark_not_a_face")
        /\ ~\E f \in Before(t).faces : f.face_id = call[t].face_id
        /\ \E f \in Before(t).faces : f.is_face

\* C6: mark_not_a_face(f) changes nothing but the is_face flag of row f: the
\* table has as many rows as before, row f is as before but for is_face =
\* FALSE, every other row is as before, and the scan rows (their face_count
\* too) are as before.
C6_OnlyIsFaceChanges ==
    \A t \in Threads :
        Returning(t, "mark_not_a_face") =>
            /\ Cardinality(pictures_faces) = Cardinality(Before(t).faces)
            /\ \A f \in Before(t).faces :
                  IF f.face_id = call[t].face_id
                  THEN [f EXCEPT !.is_face = FALSE] \in pictures_faces
                  ELSE f \in pictures_faces
            /\ pictures_face_scans = Before(t).scans

\* C6 witness: the call flagged a row that was a face, in a table of two
\* rows, and the scan row of its picture still counts two faces.
C6_Witness ==
    \E t \in Threads :
        /\ Returning(t, "mark_not_a_face")
        /\ Cardinality(pictures_faces) = 2
        /\ \E f \in Before(t).faces :
              /\ f.face_id = call[t].face_id
              /\ f.is_face
              /\ \E s \in pictures_face_scans :
                    s.picture_id = f.picture_id /\ s.face_count = 2

\* C7: mark_face_scan_broken(p) leaves exactly one scan row for p, with
\* is_broken = TRUE and face_count = 0, leaves the scan rows of the other
\* pictures as they were, and leaves the face table as it was.
C7_BrokenMarkerFrame ==
    \A t \in Threads :
        Returning(t, "mark_face_scan_broken") =>
            /\ ret[t][1].ok
            /\ \A s \in ScanRows(pictures_face_scans, call[t].picture_id) :
                  s.is_broken /\ s.face_count = 0
            /\ Cardinality(ScanRows(pictures_face_scans, call[t].picture_id)) = 1
            /\ \A p \in PictureIds \ {call[t].picture_id} :
                  ScanRows(pictures_face_scans, p) = ScanRows(Before(t).scans, p)
            /\ pictures_faces = Before(t).faces

\* C7 witness: the picture marked broken had a scan row counting two faces
\* and has face rows, and the other picture has a scan row.
C7_Witness ==
    \E t \in Threads :
        /\ Returning(t, "mark_face_scan_broken")
        /\ \E s \in Before(t).scans :
              s.picture_id = call[t].picture_id /\ s.face_count = 2
        /\ \E f \in pictures_faces : f.picture_id = call[t].picture_id
        /\ \E s \in pictures_face_scans : s.picture_id # call[t].picture_id

\* The Person find_faces owes for face row f: the person f is linked to when
\* that row of people has a name and a thumbnail path, none otherwise.
PersonOwed(f) ==
    IF \E q \in people : /\ ~IsNull(f.person_id)
                         /\ q.person_id = f.person_id
                         /\ ~IsNull(q.name)
                         /\ ~IsNull(q.thumbnail_path)
    THEN Some([person_id |-> f.person_id[1],
               name |-> "Ann",
               thumbnail_path |-> <<"/", "cache", "people", "p.png">>])
    ELSE NULL

\* C8: find_faces returns one tuple for every face of the picture that is
\* still a face, linked or not, and the tuple holds a Person exactly when
\* the person row joined to the face has person id, name and thumbnail path
\* all non-null; the Person then holds those three values.
C8_PersonOnlyWhenComplete ==
    \A t \in Threads :
        Returning(t, "find_faces") =>
            LET result == ret[t][1].value
                kept == {f \in pictures_faces :
                            f.picture_id = call[t].picture_id /\ f.is_face}
            IN  /\ Len(result) = Cardinality(kept)
                /\ \A f \in kept :
                      \E i \in 1 .. Len(result) :
                          /\ result[i][1].face_id = f.face_id
                          /\ result[i][2] = PersonOwed(f)

\* C8 witness: one result holds a face with a Person and a face that is
\* linked to a person row whose name is NULL, returned without a Person.
C8_Witness ==
    \E t \in Threads :
        /\ Returning(t, "find_faces")
        /\ Len(ret[t][1].value) = 2
        /\ \E i \in 1 .. 2 : ~IsNull(ret[t][1].value[i][2])
        /\ \E f \in pictures_faces, q \in people :
              /\ q.person_id = f.person_id
              /\ IsNull(q.name)
              /\ ~IsNull(q.thumbnail_path)
              /\ \E i \in 1 .. 2 :
                    /\ ret[t][1].value[i][1].face_id = f.face_id
                    /\ IsNull(ret[t][1].value[i][2])

\* The timestamp find_need_face_scan orders picture p by, the statement
\* having read the clock at now.
OrderingKey(p, now) ==
    IF ~IsNull(p.exif_created_ts) THEN p.exif_created_ts[1]
    ELSE IF ~IsNull(p.exif_modified_ts) THEN p.exif_modified_ts[1]
    ELSE IF ~IsNull(p.fs_created_ts) THEN p.fs_created_ts[1]
    ELSE IF ~IsNull(p.fs_modified_ts) THEN p.fs_modified_ts[1]
    ELSE now

PictureOf(picture_id) == CHOOSE p \in pictures : p.picture_id = picture_id

\* C9: the sequence find_need_face_scan returns is in descending order of
\* the first non-null of EXIF-created, EXIF-modified, filesystem-created,
\* filesystem-modified and the current time.
C9_NewestFirst ==
    \A t \in Threads :
        Returning(t, "find_need_face_scan") =>
            LET result == ret[t][1].value
            IN  \A i, j \in 1 .. Len(result) :
                    i < j =>
                        OrderingKey(PictureOf(result[i][1].id), call[t].ts)
                            >= OrderingKey(PictureOf(result[j][1].id), call[t].ts)

\* C9 witness: picture 1 has the older EXIF-created timestamp, picture 2
\* the newer one and older timestamps of the other kinds, and picture 2 is
\* returned first.
C9_Witness ==
    \E t \in Threads :
        /\ Returning(t, "find_need_face_scan")
        /\ Len(ret[t][1].value) = 2
        /\ ret[t][1].value[1][1].id = 2
        /\ PictureOf(1).exif_created_ts = Some(0)
        /\ PictureOf(1).exif_modified_ts = Some(1)
        /\ PictureOf(2).exif_created_ts = Some(1)
        /\ PictureOf(2).exif_modified_ts = Some(0)

\* Thread t is between taking the mutex and releasing it.
Holding(t) == pc[t] \in {"run", "insert", "return"}

\* C10: at most one thread is between lock acquisition and release, and it
\* is the one the mutex records.
C10_OneOperationAtATime ==
    /\ Cardinality({t \in Threads : Holding(t)}) <= 1
    /\ \A t \in Threads : Holding(t) => con = Some(t)

\* C10 witness: the scanner is inside add_face_scans, between two
\* statements of its transaction, while the GUI waits for the mutex.
C10_Witness ==
    /\ pc["scanner"] = "insert"
    /\ Len(call["scanner"].faces) = 1
    /\ pc["gui"] = "lock"

C12_PathRoundTrip ==
    \A t \in Threads :
        Returning(t, "find_faces") =>
            \A i \in 1 .. Len(ret[t][1].value) :
                LET face == ret[t][1].value[i][1]
                IN  /\ UnderCacheRoot(observed[face.face_id].thumbnail_path)
                    /\ face.thumbnail_path =
                           observed[face.face_id].thumbnail_path

\* The five landmarks: the field of the observation and its two columns.
Landmarks ==
    {[of |-> "right_eye", x |-> "right_eye_x", y |-> "right_eye_y"],
     [of |-> "left_eye", x |-> "left_eye_x", y |-> "left_eye_y"],
     [of |-> "nose", x |-> "nose_x", y |-> "nose_y"],
     [of |-> "right_mouth_corner", x |-> "right_mouth_corner_x",
      y |-> "right_mouth_corner_y"],
     [of |-> "left_mouth_corner", x |-> "left_mouth_corner_x",
      y |-> "left_mouth_corner_y"]}

\* The rows a thread has inserted in its open transaction.
Uncommitted(t) ==
    IF pc[t] = "insert" THEN pictures_faces \ Before(t).faces ELSE {}

\* The observation row f was produced from: the one recorded when its call
\* committed or, for a row of an open transaction, the one the loop of that
\* call inserted it from.
ProducedBy(f) ==
    IF \E t \in Threads : f \in Uncommitted(t)
    THEN LET t == CHOOSE u \in Threads : f \in Uncommitted(u)
         IN  call[t].faces[f.face_id - NextFaceId(Before(t).faces) + 1]
    ELSE observed[f.face_id]

\* C13: in every state, for every row of pictures_faces and each of the five
\* landmarks, the x and y columns are both NULL or both not NULL; they are
\* NULL when the observation the row was produced from has no such
\* landmark, and otherwise hold the x and the y of its pair.
C13_LandmarkPairs ==
    \A f \in pictures_faces :
        \A l \in Landmarks :
            LET landmark == ProducedBy(f)[l.of]
            IN  /\ IsNull(f[l.x]) <=> IsNull(f[l.y])
                /\ IF IsNull(landmark)
                   THEN IsNull(f[l.x]) /\ IsNull(f[l.y])
                   ELSE /\ f[l.x] = Some(landmark[1][1])
                        /\ f[l.y] = Some(landmark[1][2])

\* C13 witness: a committed row, since rejected, and a row of an open
\* transaction, each with its right eye at (5, 6) and no left eye.
C13_Witness ==
    /\ \E f \in pictures_faces :
          /\ ~f.is_face
          /\ f.right_eye_x = Some(5) /\ f.right_eye_y = Some(6)
          /\ IsNull(f.left_eye_x) /\ IsNull(f.left_eye_y)
    /\ \E t \in Threads : \E f \in Uncommitted(t) :
          /\ f.right_eye_x = Some(5) /\ f.right_eye_y = Some(6)
          /\ IsNull(f.left_eye_x) /\ IsNull(f.left_eye_y)

\* The pictures find_need_face_scan owes: those with no scan row that are
\* not flagged broken and whose stored path decodes.
NeedFaceScan ==
    {p \in pictures :
        /\ ScanRows(pictures_face_scans, p.picture_id) = {}
        /\ p.is_broken # Some(TRUE)
        /\ FromBase64(p.picture_path_b64).ok}

\* C14: find_need_face_scan returns Ok with one entry for each picture that
\* has no scan row, is not flagged broken and has a stored path that
\* decodes, the entry holding the library root joined with that path, and
\* with no other entry: a picture whose stored path does not decode is left
\* out and neither fails the call nor removes another picture.
C14_UndecodableOmitted ==
    \A t \in Threads :
        Returning(t, "find_need_face_scan") =>
            LET result == ret[t][1].value
            IN  /\ ret[t][1].ok
                /\ Len(result) = Cardinality(NeedFaceScan)
                /\ \A p \in NeedFaceScan :
                      \E i \in 1 .. Len(result) :
                          /\ result[i][1] = PictureId(p.picture_id)
                          /\ result[i][2] =
                                 library_base_path \o p.picture_path_b64.path

\* C14 witness: picture 1, first in the order of the query, has no scan row
\* and is not flagged broken but its path does not decode; the call returns
\* picture 2 alone.
C14_Witness ==
    \E t \in Threads :
        /\ Returning(t, "find_need_face_scan")
        /\ call[t].ts = 0
        /\ ret[t][1].ok
        /\ Len(ret[t][1].value) = 1
        /\ ret[t][1].value[1][1] = PictureId(2)
        /\ ScanRows(pictures_face_scans, 1) = {}
        /\ PictureOf(1).is_broken # Some(TRUE)
        /\ PictureOf(1).picture_path_b64 = Garbage

\* C15: when a row find_faces selects cannot be converted to a Face, its
\* thumbnail path being unreadable, find_faces returns an error.
C15_UnreadableRowIsFatal ==
    \A t \in Threads :
        (/\ Returning(t, "find_faces")
         /\ \E f \in pictures_faces : /\ f.picture_id = call[t].picture_id
                                       /\ f.is_face
                                       /\ IsNull(f.thumbnail_path))
            => ~ret[t][1].ok

FaceRows(faces, picture_id) == {f \in faces : f.picture_id = picture_id}

\* C16: a scan appends and never replaces.  When add_face_scans(p, B)
\* returns Ok, every face row p had before is still there unchanged, p has
\* len(B) rows more than before, and the scan row of p counts len(B) faces
\* only.  find_faces(p) returns as many faces as p has rows that were not
\* rejected, none of them with a Person.
C16_RescanAppends ==
    \A t \in Threads :
        /\ (Returning(t, "add_face_scans") /\ ret[t][1].ok) =>
              LET p == call[t].picture_id
              IN  /\ FaceRows(Before(t).faces, p) \subseteq pictures_faces
                  /\ Cardinality(FaceRows(pictures_faces, p)) =
                         Cardinality(FaceRows(Before(t).faces, p)) + call[t].len
                  /\ \A s \in ScanRows(pictures_face_scans, p) :
                         s.face_count = call[t].len
        /\ Returning(t, "find_faces") =>
              LET result == ret[t][1].value
              IN  /\ Len(result) =
                         Cardinality({f \in FaceRows(pictures_faces,
                                                     call[t].picture_id) :
                                         f.face_id \notin rejected})
                  /\ \A i \in 1 .. Len(result) : IsNull(result[i][2])

\* C16 witness: find_faces(p) returns two faces after two scans of p of one
\* observation each, with no face rejected and a scan row that counts one.
C16_Witness ==
    \E t \in Threads :
        /\ Returning(t, "find_faces")
        /\ Len(ret[t][1].value) = 2
        /\ rejected = {}
        /\ last_scan[call[t].picture_id] # NULL
        /\ last_scan[call[t].picture_id][1].face_count = 1
        /\ \A s \in ScanRows(pictures_face_scans, call[t].picture_id) :
              s.face_count = 1 /\ ~s.is_broken

\* C17: a query sees the work of an add_face_scans call whole or not at
\* all.  Every face find_faces returns is a row of a committed call, and
\* every row of a committed call for its picture is returned unless it was
\* rejected since, so of the rows of a call under way none is returned; and
\* find_need_face_scan returns every picture for which no scan write was
\* ever committed, so the scan row of a call that is rolled back hides no
\* picture.
C17_CallsSeenWhole ==
    \A t \in Threads :
        /\ Returning(t, "find_faces") =>
              LET returned == ReturnedFaceIds(ret[t][1].value)
                  stored == {f.face_id :
                                f \in FaceRows(pictures_faces,
                                               call[t].picture_id)}
              IN  /\ returned \subseteq DOMAIN observed
                  /\ (stored \cap DOMAIN observed) \ rejected
                         \subseteq returned
        /\ Returning(t, "find_need_face_scan") =>
              {p \in PictureIds : IsNull(last_scan[p])} \subseteq
                  {ret[t][1].value[i][1].id :
                      i \in 1 .. Len(ret[t][1].value)}

\* C17 witness: a find_faces(p) call during which an add_face_scans call
\* of the other thread was under way returns both faces of the one scan of
\* two observations that p has had.
C17_Witness ==
    \E t \in Threads :
        /\ Returning(t, "find_faces")
        /\ call[t].overlap
        /\ Len(ret[t][1].value) = 2
        /\ last_scan[call[t].picture_id] # NULL
        /\ last_scan[call[t].picture_id][1].face_count = 2
        /\ rejected = {}

\* C18: in every state, a picture that has a row in pictures_faces has a row
\* in pictures_face_scans, and no picture find_need_face_scan returns has a
\* row in pictures_faces.
C18_FacesImplyScanRow ==
    /\ \A f \in pictures_faces :
          ScanRows(pictures_face_scans, f.picture_id) # {}
    /\ \A t \in Threads :
          Returning(t, "find_need_face_scan") =>
              \A i \in 1 .. Len(ret[t][1].value) :
                  FaceRows(pictures_faces, ret[t][1].value[i][1].id) = {}

\* C18 witness: find_need_face_scan returns one picture and leaves out the
\* other, which has the one face row of the table and a scan row that
\* counts one face.
C18_Witness ==
    \E t \in Threads :
        /\ Returning(t, "find_need_face_scan")
        /\ Len(ret[t][1].value) = 1
        /\ \E p \in PictureIds :
              /\ FaceRows(pictures_faces, p) # {}
              /\ \E s \in ScanRows(pictures_face_scans, p) : s.face_count = 1
        /\ Cardinality(pictures_faces) = 1

\* An open transaction has written the scan row of the picture.
BeingScanned(picture_id) ==
    \E t \in Threads : pc[t] = "insert" /\ call[t].picture_id = picture_id

\* C19: in every state a scan row with is_broken = TRUE has face_count = 0;
\* and a scan row with is_broken = FALSE that no open transaction has
\* written belongs to a picture whose latest committed scan write was an
\* add_face_scans, and its face_count is the length of that call's list.
C19_ScanRowCounts ==
    \A s \in pictures_face_scans :
        /\ s.is_broken => s.face_count = 0
        /\ (~s.is_broken /\ ~BeingScanned(s.picture_id)) =>
              /\ last_scan[s.picture_id] # NULL
              /\ ~last_scan[s.picture_id][1].is_broken
              /\ s.face_count = last_scan[s.picture_id][1].face_count

\* C19 witness: one picture was scanned with one face and then marked
\* broken, the other was marked broken and then scanned with one face.
C19_Witness ==
    /\ NoOpenTransaction
    /\ \E s \in pictures_face_scans :
          /\ s.is_broken
          /\ Cardinality(FaceRows(pictures_faces, s.picture_id)) = 1
    /\ \E s \in pictures_face_scans :
          /\ ~s.is_broken
          /\ s.face_count = 1
          /\ s.scan_ts = 1
          /\ \E t \in Threads :
                /\ Returning(t, "add_face_scans")
                /\ call[t].picture_id = s.picture_id
                /\ \E b \in ScanRows(Before(t).scans, s.picture_id) :
                      b.is_broken

\* C20: the container of FaceThumbnails is empty before any message and
\* after Hide; after View(p) it is empty if find_faces failed, and otherwise
\* each of its frames shows a face that find_faces(p) returned, which is a
\* face row of picture p, no two frames showing the same face.
C20_FramesOfViewedPicture ==
    /\ viewed.msg # "View" => face_thumbnails = <<>>
    /\ viewed.msg = "View" =>
          /\ ~viewed.found.ok => face_thumbnails = <<>>
          /\ \A i \in 1 .. Len(face_thumbnails) :
                /\ viewed.found.ok
                /\ \E j \in 1 .. Len(viewed.found.value) :
                      face_thumbnails[i] = viewed.found.value[j][1].face_id
                /\ \E f \in FaceRows(pictures_faces, viewed.picture_id) :
                      f.face_id = face_thumbnails[i]
                /\ \A j \in 1 .. Len(face_thumbnails) :
                      i # j => face_thumbnails[i] # face_thumbnails[j]

\* C20 witness: the picture viewed last had two faces, of which only the
\* second had a thumbnail file and got the only frame; the scanner has
\* since begun a transaction.
C20_Witness ==
    /\ viewed.msg = "View"
    /\ viewed.found.ok
    /\ Len(viewed.found.value) = 2
    /\ Len(face_thumbnails) = 1
    /\ face_thumbnails[1] = 2
    /\ pc["scanner"] = "insert"

====
